---- MODULE Spec2Model ----
(***************************************************************************)
(* State-machine model of the MSFT_lod glTF loader extension               *)
(* (src/loaders/src/glTF/2.0/Extensions/MSFT_lod.ts).                      *)
(*                                                                         *)
(* The extension is driven by the glTF loader: loadNodeAsync,              *)
(* _loadMaterialAsync, _loadUriAsync and loadBufferAsync are called        *)
(* synchronously while the asset is traversed, onReady once all load       *)
(* requests were issued, and the promise reactions registered by these     *)
(* methods run later, one per event-loop step.  The loader itself is not   *)
(* part of the source file; what it does is kept to the minimum the        *)
(* extension reads back (definitions named Loader...).                     *)
(***************************************************************************)
EXTENDS Integers, Sequences, FiniteSets, TLC

\* ------------------------------------------------------------------ bounds
MaxIds == 3          \* longest declared ids list drawn for _getLODs
MaxCap == 4          \* largest maxLODsToLoad drawn for _getLODs
MaxBufReqs == 2      \* loadBufferAsync calls recorded in one run
MaxUriReqs == 1      \* deferred _loadUriAsync calls recorded in one run
MaxOffset == 1       \* largest byteOffset of a loadBufferAsync call
MaxByteLength == 2   \* largest byteLength of a loadBufferAsync call
MaxObjects == 2      \* objects declaring the extension that the loader loads in one run
MaxFailures == 1     \* promises of the loader or of bin.readAsync that reject in one run

\* --------------------------------------------------------- program constants
DefaultMaxLODs == 10 \* public maxLODsToLoad = 10

\* ------------------------------------------------------------------- asset
Null == -1

\* gltf.nodes: node 0 declares ids [1, 2], node 3 declares ids [4].
GltfNodes == 0..4
NodeObjs == {0, 3}
NodeIds(n) == IF n = 0 THEN <<1, 2>> ELSE <<4>>

\* gltf.materials: material 0 declares ids [1]; one mesh uses it.
GltfMaterials == 0..1
Meshes == {0}
MeshMaterial(m) == 0
MaterialIds(mat) == <<1>>

LevelIdx == 0..2

VARIABLES
    maxLODsToLoad,        \* this.maxLODsToLoad
    useRangeRequests,     \* this._loader.parent.useRangeRequests
    nodeIndexLOD,         \* this._nodeIndexLOD
    nodeSignalLODs,       \* this._nodeSignalLODs: level -> "none" | "pending" | "resolved"
    nodePromiseLODs,      \* this._nodePromiseLODs: sequence (level+1) of sets of node objects
    materialIndexLOD,     \* this._materialIndexLOD
    materialSignalLODs,   \* this._materialSignalLODs
    materialPromiseLODs,  \* this._materialPromiseLODs: sequence of sets of meshes
    indexLOD,             \* this._indexLOD
    bufferLODs,           \* this._bufferLODs: level -> bucket object
    observers,            \* the two observables still hold their observers
    disposed,             \* dispose() ran (this._loader deleted)
    traversed,            \* the loader finished its synchronous traversal of the asset
    ready,                \* onReady() ran
    nodeAggregates,       \* Promise.all(...) built by onReady, per node level
    materialAggregates,   \* Promise.all(...) built by onReady, per material level
    aggDone,              \* aggregate reactions that already ran: <<kind, level>>
    notified,             \* notifications delivered to observers: <<kind, level>> -> count
    stack,                \* synchronous call frames of the load loops, top first
    called,               \* objects whose load was requested by the loader
    nodeLoad,             \* promise of a node level: "none", "loading", "loaded" (reaction
                          \* ran), "failed" (loader rejected), "threw" (reaction threw),
                          \* "aborted" (the call was unwound before the reaction was set)
    materialLoad,         \* promise of _loadMaterialAsync's level: mesh -> level -> status
    nodes,                \* transform node of each glTF node
    matData,              \* material._data[drawMode] of each glTF material
    meshMat,              \* babylonMesh.material
    uriReqs,              \* _loadUriAsync requests deferred behind a signal
    bufReqs,              \* loadBufferAsync requests and what their future delivered
    reads,                \* bin.readAsync calls issued, in order
    ops,                  \* renderable operations of the last reaction, in order
    result,               \* outcome of the last extension call
    getIn,                \* _getLODs under test: its inputs
    getOut                \* _getLODs under test: its return value

vars == <<maxLODsToLoad, useRangeRequests, nodeIndexLOD, nodeSignalLODs, nodePromiseLODs,
          materialIndexLOD, materialSignalLODs, materialPromiseLODs, indexLOD,
          bufferLODs, observers, disposed, traversed, ready, nodeAggregates,
          materialAggregates, aggDone, notified, stack, called, nodeLoad,
          materialLoad, nodes, matData, meshMat, uriReqs, bufReqs, reads, ops,
          result, getIn, getOut>>

getVars == <<getIn, getOut>>
extVars == <<maxLODsToLoad, useRangeRequests, nodeIndexLOD, nodeSignalLODs, nodePromiseLODs,
             materialIndexLOD, materialSignalLODs, materialPromiseLODs, indexLOD,
             bufferLODs, observers, disposed, traversed, ready, nodeAggregates,
             materialAggregates, aggDone, notified, stack, called, nodeLoad,
             materialLoad, nodes, matData, meshMat, uriReqs, bufReqs, reads, ops,
             result>>

Min(a, b) == IF a < b THEN a ELSE b
Max(a, b) == IF a > b THEN a ELSE b

\* ---------------------------------------------------------------- _getLODs
\* ArrayItem.Get: the item at index of array, or an out-of-range error.
OutOfRange == -1
ArrayItemGet(array, index) == IF index \in array THEN index ELSE OutOfRange

RECURSIVE GetLODsLoop(_, _, _, _, _, _)
GetLODsLoop(property, array, ids, max, i, properties) ==
    IF i < 1
    THEN [error |-> "none", lods |-> Append(properties, property)]
    ELSE LET item == ArrayItemGet(array, ids[i]) IN
         IF item = OutOfRange
         THEN [error |-> "ArrayItem", lods |-> <<>>]
         ELSE LET pushed == Append(properties, item) IN
              IF Len(pushed) = max
              THEN [error |-> "none", lods |-> pushed]
              ELSE GetLODsLoop(property, array, ids, max, i - 1, pushed)

\* Variant of GetLODs that keeps the original property last under truncation.
GetLODsOriginalLast(property, array, ids, max) ==
    IF max <= 0
    THEN [error |-> "maxLODsToLoad", lods |-> <<>>]
    ELSE LET got == GetLODsLoop(property, array, ids, max, Len(ids), <<>>) IN
         IF got.error = "none"
         THEN [got EXCEPT !.lods[Len(got.lods)] = property]
         ELSE got

\* Variant of GetLODs that walks the declared ids from first to last.
GetLODsForward(property, array, ids, max) ==
    IF max <= 0
    THEN [error |-> "maxLODsToLoad", lods |-> <<>>]
    ELSE LET reversed == [i \in 1..Len(ids) |-> ids[Len(ids) - i + 1]] IN
         GetLODsLoop(property, array, reversed, max, Len(ids), <<>>)

\* Variant of GetLODs without the check of the cap.
GetLODsUnchecked(property, array, ids, max) ==
    GetLODsLoop(property, array, ids, max, Len(ids), <<>>)

GetLODs(property, array, ids, max) ==
    IF max <= 0
    THEN [error |-> "maxLODsToLoad", lods |-> <<>>]
    ELSE GetLODsLoop(property, array, ids, max, Len(ids), <<>>)

\* The pure function on drawn inputs.
IdSeqs == UNION {[1..n -> 0..MaxIds] : n \in 0..MaxIds}
GetArray == 0..(MaxIds - 1)
GetInputs == [property : GetArray, ids : IdSeqs, max : 0..MaxCap]
NotCalled == [error |-> "notCalled", lods |-> <<>>]

CallGetLODs ==
    /\ getOut = NotCalled
    /\ getOut' = GetLODs(getIn.property, GetArray, getIn.ids, getIn.max)
    /\ UNCHANGED getIn

\* ------------------------------------------------------------ state helpers
NoNode == [created |-> FALSE, tracked |-> FALSE, enabled |-> FALSE, disposed |-> FALSE]
NoData == [created |-> FALSE, tracked |-> FALSE, disposed |-> FALSE, meshes |-> {}]
NoMat == -1
NoBucket == [inArray |-> FALSE, exists |-> FALSE, start |-> 0, end |-> 0,
             loaded |-> "pending", from |-> 0, to |-> 0]

Frame(k, o, l) == [kind |-> k, obj |-> o, lod |-> l]

NodeLODs(o) == GetLODs(o, GltfNodes, NodeIds(o), maxLODsToLoad)
MaterialLODs(m) ==
    GetLODs(MeshMaterial(m), GltfMaterials, MaterialIds(MeshMaterial(m)), maxLODsToLoad)

\* Array length of this._bufferLODs (a sparse array).
BufferLODsLength ==
    IF \E l \in LevelIdx : bufferLODs[l].inArray
    THEN 1 + CHOOSE l \in LevelIdx :
                 /\ bufferLODs[l].inArray
                 /\ \A k \in LevelIdx : bufferLODs[k].inArray => k <= l
    ELSE 0

\* promiseLODs[indexLOD] = promiseLODs[indexLOD] || []; promiseLODs[indexLOD].push(promise)
PushPromise(arr, l, o) ==
    IF Len(arr) < l + 1 THEN Append(arr, {o}) ELSE [arr EXCEPT ![l + 1] = @ \cup {o}]

\* signalLODs[indexLOD] = signalLODs[indexLOD] || new Deferred()
EnsureSignal(sig, l) == IF sig[l] = "none" THEN [sig EXCEPT ![l] = "pending"] ELSE sig

\* _loadBufferLOD: one bin.readAsync(start, end - start + 1) for the bucket as it is now.
LoadBufferLOD(rds, l) ==
    Append(rds, [lod |-> l, start |-> bufferLODs[l].start,
                 length |-> bufferLODs[l].end - bufferLODs[l].start + 1,
                 st |-> "pending"])

\* The loader's loadNodeAsync: creates the transform node and records it on the
\* glTF node (_babylonTransformNode).
LoaderLoadNodeAsync(ns, n) ==
    [ns EXCEPT ![n] = [created |-> TRUE, tracked |-> TRUE, enabled |-> TRUE,
                       disposed |-> FALSE]]

\* assign = (babylonTransformNode) => { babylonTransformNode.setEnabled(false); }
AssignDisabled(ns, n) == [ns EXCEPT ![n].enabled = FALSE]

\* The loader's _loadMaterialAsync: creates material._data[drawMode] when absent
\* and records the mesh in its babylonMeshes.
LoaderLoadMaterialAsync(md, mat, m) ==
    IF md[mat].tracked
    THEN [md EXCEPT ![mat].meshes = @ \cup {m}]
    ELSE [md EXCEPT ![mat] = [created |-> TRUE, tracked |-> TRUE, disposed |-> FALSE,
                              meshes |-> {m}]]

\* _disposeUnusedMaterials: every tracked material no mesh of its babylonMeshes
\* has as its material is disposed and its _data[drawMode] deleted.
Unused(md, mm, mat) == md[mat].tracked /\ \A m \in md[mat].meshes : mm[m] # mat
DisposeUnusedMaterials(md, mm) ==
    [mat \in GltfMaterials |->
        IF Unused(md, mm, mat)
        THEN [md[mat] EXCEPT !.tracked = FALSE, !.disposed = TRUE]
        ELSE md[mat]]

Op(o, k, i) == [op |-> o, kind |-> k, id |-> i]

\* new Uint8Array(data.buffer, data.byteOffset + byteOffset - bufferLOD.start, byteLength)
\* over the fetched bytes [from, to] of the payload.
View(b, byteOffset, byteLength) ==
    LET at == byteOffset - b.start IN
    IF at + byteLength > b.to - b.from + 1
    THEN [st |-> "rangeError", from |-> 0, to |-> 0]
    ELSE [st |-> "fulfilled", from |-> b.from + at, to |-> b.from + at + byteLength - 1]

Settle(q, b) ==
    IF b.loaded = "resolved"
    THEN LET v == View(b, q.byteOffset, q.byteLength) IN
         [q EXCEPT !.st = v.st, !.from = v.from, !.to = v.to]
    ELSE IF b.loaded = "rejected" THEN [q EXCEPT !.st = "rejected"] ELSE q

\* ---------------------------------------------------------------------- Init
CapChoices == {0, 2, DefaultMaxLODs}

InitExtension ==
    /\ nodeIndexLOD = Null
    /\ nodeSignalLODs = [l \in LevelIdx |-> "none"]
    /\ nodePromiseLODs = <<>>
    /\ materialIndexLOD = Null
    /\ materialSignalLODs = [l \in LevelIdx |-> "none"]
    /\ materialPromiseLODs = <<>>
    /\ indexLOD = Null
    /\ bufferLODs = [l \in LevelIdx |-> NoBucket]
    /\ observers = TRUE
    /\ disposed = FALSE
    /\ traversed = FALSE
    /\ ready = FALSE
    /\ nodeAggregates = <<>>
    /\ materialAggregates = <<>>
    /\ aggDone = {}
    /\ notified = [e \in {"node", "material"} \X LevelIdx |-> 0]
    /\ stack = <<>>
    /\ called = {}
    /\ nodeLoad = [o \in NodeObjs |-> [l \in LevelIdx |-> "none"]]
    /\ materialLoad = [m \in Meshes |-> [l \in LevelIdx |-> "none"]]
    /\ nodes = [n \in GltfNodes |-> NoNode]
    /\ matData = [mat \in GltfMaterials |-> NoData]
    /\ meshMat = [m \in Meshes |-> NoMat]
    /\ uriReqs = {}
    /\ bufReqs = {}
    /\ reads = <<>>
    /\ ops = <<>>
    /\ result = "none"

Init ==
    /\ maxLODsToLoad \in CapChoices
    /\ useRangeRequests = FALSE
    /\ InitExtension
    /\ getIn = [property |-> 0, ids |-> <<>>, max |-> 0]
    /\ getOut = NotCalled

\* --------------------------------------------------- loadNodeAsync (136-189)
Idle == stack = <<>>
\* Reactions run on the event loop, after the synchronous traversal.
Async == Idle /\ traversed
Truthy(x) == x # Null /\ x # 0

\* Lines 144-154 of one loop iteration, up to the loader's loadNodeAsync call.
EnterNodeLevel(o, l, n) ==
    /\ indexLOD' = l
    /\ nodeIndexLOD' = IF l # 0 THEN l ELSE nodeIndexLOD
    /\ nodeSignalLODs' = IF l # 0 THEN EnsureSignal(nodeSignalLODs, l) ELSE nodeSignalLODs
    /\ nodes' = AssignDisabled(LoaderLoadNodeAsync(nodes, n), n)
    /\ nodeLoad' = [nodeLoad EXCEPT ![o][l] = "loading"]
    /\ stack' = <<Frame("node", o, l)>>

\* The loader calls loadNodeAsync for a node that declares the extension.
LoadNodeAsync(o) ==
    /\ Idle /\ ~traversed
    /\ <<"node", o>> \notin called
    /\ called' = called \cup {<<"node", o>>}
    /\ ops' = <<>>
    /\ LET got == NodeLODs(o) IN
       IF got.error # "none"
       THEN /\ result' = got.error
            /\ UNCHANGED <<indexLOD, nodeIndexLOD, nodeSignalLODs, nodes, nodeLoad, stack>>
       ELSE /\ result' = "loading"
            /\ EnterNodeLevel(o, 0, got.lods[1])
    /\ UNCHANGED <<maxLODsToLoad, useRangeRequests, nodePromiseLODs, materialIndexLOD, materialSignalLODs,
                   materialPromiseLODs, bufferLODs, observers, disposed, traversed, ready,
                   nodeAggregates, materialAggregates, aggDone, notified, materialLoad,
                   matData, meshMat, uriReqs, bufReqs, reads, getIn, getOut>>

\* The loader's loadNodeAsync returned its promise: lines 154-183 of the
\* iteration, then the next iteration up to its loader call, or the loop's end.
NodeLoaderReturn ==
    /\ stack # <<>> /\ Head(stack).kind = "node"
    /\ LET o == Head(stack).obj
           l == Head(stack).lod
           lods == NodeLODs(o).lods
       IN
       IF l = 0 /\ BufferLODsLength # 0 /\ ~bufferLODs[0].inArray
       THEN \* _loadBufferLOD(0) reads bufferLOD.start of undefined
            /\ result' = "TypeError"
            /\ stack' = <<>>
            /\ UNCHANGED <<indexLOD, nodeIndexLOD, nodeSignalLODs, nodes, nodeLoad,
                           reads, nodePromiseLODs>>
       ELSE /\ reads' = IF l = 0 /\ BufferLODsLength # 0
                        THEN LoadBufferLOD(reads, 0) ELSE reads
            /\ nodePromiseLODs' = PushPromise(nodePromiseLODs, l, o)
            /\ IF l + 1 < Len(lods)
               THEN /\ EnterNodeLevel(o, l + 1, lods[l + 2])
                    /\ result' = "loading"
               ELSE /\ indexLOD' = Null
                    /\ nodeIndexLOD' = IF l # 0 THEN Null ELSE nodeIndexLOD
                    /\ stack' = <<>>
                    /\ result' = "promise"
                    /\ UNCHANGED <<nodeSignalLODs, nodes, nodeLoad>>
    /\ ops' = <<>>
    /\ UNCHANGED <<maxLODsToLoad, useRangeRequests, materialIndexLOD, materialSignalLODs,
                   materialPromiseLODs, bufferLODs, observers, disposed, traversed, ready,
                   nodeAggregates, materialAggregates, aggDone, notified, called,
                   materialLoad, matData, meshMat, uriReqs, bufReqs, getIn, getOut>>

\* ----------------------------------------------- _loadMaterialAsync (192-252)
\* Lines 205-213 of one loop iteration, up to the loader's _loadMaterialAsync
\* call; the loader calls the assign callback at once (lines 213-216).
EnterMaterialLevel(m, l, mat, below) ==
    /\ indexLOD' = l
    /\ materialIndexLOD' = IF l # 0 THEN l ELSE materialIndexLOD
    /\ matData' = LoaderLoadMaterialAsync(matData, mat, m)
    /\ meshMat' = IF l = 0 THEN [meshMat EXCEPT ![m] = mat] ELSE meshMat
    /\ materialLoad' = [materialLoad EXCEPT ![m][l] = "loading"]
    /\ stack' = <<Frame("material", m, l)>> \o below

\* The loader asks for the material of a mesh, at top level or from inside
\* its own loadNodeAsync of a node level.
LoadMaterialAsync(m) ==
    /\ ~traversed
    /\ IF stack = <<>> THEN TRUE ELSE Head(stack).kind = "node"
    /\ <<"material", m>> \notin called
    /\ called' = called \cup {<<"material", m>>}
    /\ ops' = <<>>
    /\ IF Truthy(indexLOD)
       THEN \* line 194: return null; the loader loads the material itself
            /\ result' = "null"
            /\ matData' = LoaderLoadMaterialAsync(matData, MeshMaterial(m), m)
            /\ meshMat' = [meshMat EXCEPT ![m] = MeshMaterial(m)]
            /\ UNCHANGED <<indexLOD, materialIndexLOD, materialLoad, stack>>
       ELSE LET got == MaterialLODs(m) IN
            IF got.error # "none"
            THEN /\ result' = got.error
                 /\ stack' = <<>>
                 /\ UNCHANGED <<indexLOD, materialIndexLOD, materialLoad, matData, meshMat>>
            ELSE /\ result' = "loading"
                 /\ EnterMaterialLevel(m, 0, got.lods[1], stack)
    /\ UNCHANGED <<maxLODsToLoad, useRangeRequests, nodeIndexLOD, nodeSignalLODs, nodePromiseLODs,
                   materialSignalLODs, materialPromiseLODs, bufferLODs, observers,
                   disposed, traversed, ready, nodeAggregates, materialAggregates, aggDone,
                   notified, nodeLoad, nodes, uriReqs, bufReqs, reads, getIn, getOut>>

\* The loader's _loadMaterialAsync returned its promise: lines 217-246 of the
\* iteration, then the next iteration up to its loader call, or the loop's end.
MaterialLoaderReturn ==
    /\ stack # <<>> /\ Head(stack).kind = "material"
    /\ LET m == Head(stack).obj
           l == Head(stack).lod
           lods == MaterialLODs(m).lods
           below == Tail(stack)
       IN
       IF l = 0 /\ BufferLODsLength # 0 /\ ~bufferLODs[0].inArray
       THEN \* _loadBufferLOD(0) throws through every enclosing call
            /\ result' = "TypeError"
            /\ stack' = <<>>
            /\ nodeLoad' = IF below # <<>>
                           THEN [nodeLoad EXCEPT ![below[1].obj][below[1].lod] = "aborted"]
                           ELSE nodeLoad
            /\ UNCHANGED <<indexLOD, materialIndexLOD, matData, meshMat, materialLoad,
                           reads, materialPromiseLODs>>
       ELSE /\ reads' = IF l = 0 /\ BufferLODsLength # 0
                        THEN LoadBufferLOD(reads, 0) ELSE reads
            /\ materialPromiseLODs' = PushPromise(materialPromiseLODs, l, m)
            /\ nodeLoad' = nodeLoad
            /\ IF l + 1 < Len(lods)
               THEN /\ EnterMaterialLevel(m, l + 1, lods[l + 2], below)
                    /\ result' = "loading"
               ELSE /\ indexLOD' = Null
                    /\ materialIndexLOD' = IF l # 0 THEN Null ELSE materialIndexLOD
                    /\ stack' = below
                    /\ result' = "promise"
                    /\ UNCHANGED <<matData, meshMat, materialLoad>>
    /\ ops' = <<>>
    /\ UNCHANGED <<maxLODsToLoad, useRangeRequests, nodeIndexLOD, nodeSignalLODs, nodePromiseLODs,
                   materialSignalLODs, bufferLODs, observers, disposed, traversed, ready,
                   nodeAggregates, materialAggregates, aggDone, notified, called,
                   nodes, uriReqs, bufReqs, getIn, getOut>>

\* --------------------------------------------------- _loadUriAsync (255-275)
UriReq(k, o, l, sig) ==
    [kind |-> k, obj |-> o, lod |-> l,
     st |-> IF sig = "resolved" THEN "issued" ELSE "deferred"]

\* Variant of DeferUri that hands the request to the loader at once.
IssueAtOnce(k, indexOfKind, sig) ==
    UriReq(k, Head(stack).obj, indexOfKind, "resolved")

\* The request waits on the previous level's signal of the active kind.
DeferUri(k, indexOfKind, sig) ==
    UriReq(k, Head(stack).obj, indexOfKind, sig[indexOfKind - 1])

LoadUriAsync ==
    /\ ~traversed
    /\ ops' = <<>>
    /\ IF materialIndexLOD # Null
       THEN /\ materialSignalLODs' = EnsureSignal(materialSignalLODs, materialIndexLOD - 1)
            /\ uriReqs' = uriReqs \cup {DeferUri("material", materialIndexLOD,
                                                 materialSignalLODs)}
            /\ result' = "deferred"
            /\ UNCHANGED nodeSignalLODs
       ELSE IF nodeIndexLOD # Null
       THEN /\ nodeSignalLODs' = EnsureSignal(nodeSignalLODs, nodeIndexLOD - 1)
            /\ uriReqs' = uriReqs \cup {DeferUri("node", nodeIndexLOD, nodeSignalLODs)}
            /\ result' = "deferred"
            /\ UNCHANGED materialSignalLODs
       ELSE /\ result' = "null"
            /\ UNCHANGED <<materialSignalLODs, nodeSignalLODs, uriReqs>>
    /\ UNCHANGED <<maxLODsToLoad, useRangeRequests, nodeIndexLOD, nodePromiseLODs, materialIndexLOD,
                   materialPromiseLODs, indexLOD, bufferLODs, observers, disposed,
                   traversed, ready, nodeAggregates, materialAggregates, aggDone, notified, stack,
                   called, nodeLoad, materialLoad, nodes, matData, meshMat, bufReqs,
                   reads, getIn, getOut>>

\* --------------------------------------------------- loadBufferAsync (278-305)
\* Variant of RecordRange that keeps only the range of the latest call.
RecordLatest(b, start, end) ==
    [inArray |-> TRUE, exists |-> TRUE, start |-> start, end |-> end,
     loaded |-> b.loaded, from |-> b.from, to |-> b.to]

\* Lines 287-297: the bucket of the level widened to hold [start, end], or created.
RecordRange(b, start, end) ==
    IF b.inArray
    THEN [b EXCEPT !.start = Min(b.start, start), !.end = Max(b.end, end)]
    ELSE [inArray |-> TRUE, exists |-> TRUE, start |-> start, end |-> end,
          loaded |-> "pending", from |-> 0, to |-> 0]

BufReq(l, byteOffset, byteLength) ==
    [lod |-> l, byteOffset |-> byteOffset, byteLength |-> byteLength,
     st |-> "pending", from |-> 0, to |-> 0]

LoadBufferAsync(byteOffset, byteLength, uri, bin) ==
    /\ ~traversed
    /\ ops' = <<>>
    /\ IF ~(useRangeRequests /\ ~uri)
       THEN /\ result' = "null"
            /\ UNCHANGED <<bufferLODs, bufReqs>>
       ELSE IF ~bin
       THEN /\ result' = "Error"
            /\ UNCHANGED <<bufferLODs, bufReqs>>
       ELSE LET l == IF Truthy(indexLOD) THEN indexLOD ELSE 0
                b == RecordRange(bufferLODs[l], byteOffset, byteOffset + byteLength - 1)
            IN /\ bufferLODs' = [bufferLODs EXCEPT ![l] = b]
               /\ bufReqs' = bufReqs \cup {Settle(BufReq(l, byteOffset, byteLength), b)}
               /\ result' = "promise"
    /\ UNCHANGED <<maxLODsToLoad, useRangeRequests, nodeIndexLOD, nodeSignalLODs, nodePromiseLODs,
                   materialIndexLOD, materialSignalLODs, materialPromiseLODs, indexLOD,
                   observers, disposed, traversed, ready, nodeAggregates, materialAggregates,
                   aggDone, notified, stack, called, nodeLoad, materialLoad, nodes,
                   matData, meshMat, uriReqs, reads, getIn, getOut>>

\* ---------------------------------------------------- _loadBufferLOD (307-314)
\* bin.readAsync settles: the bucket's Deferred is resolved with the bytes read
\* (a second resolve of a settled Deferred changes nothing) and the waiting
\* futures of loadBufferAsync build their views (lines 299-301).
SettleBucket(b, rd, ok) ==
    IF b.loaded # "pending" THEN b
    ELSE IF ok
    THEN [b EXCEPT !.loaded = "resolved", !.from = rd.start,
                   !.to = rd.start + rd.length - 1]
    ELSE [b EXCEPT !.loaded = "rejected"]

ReadSettle(i, ok) ==
    /\ Async
    /\ i \in 1..Len(reads)
    /\ reads[i].st = "pending"
    /\ LET rd == reads[i]
           b == SettleBucket(bufferLODs[rd.lod], rd, ok)
       IN /\ reads' = [reads EXCEPT ![i].st = IF ok THEN "done" ELSE "failed"]
          /\ bufferLODs' = [bufferLODs EXCEPT ![rd.lod] = b]
          /\ bufReqs' = {IF q.lod = rd.lod /\ q.st = "pending" THEN Settle(q, b) ELSE q :
                         q \in bufReqs}
    /\ ops' = <<>>
    /\ result' = "none"
    /\ UNCHANGED <<maxLODsToLoad, useRangeRequests, nodeIndexLOD, nodeSignalLODs, nodePromiseLODs,
                   materialIndexLOD, materialSignalLODs, materialPromiseLODs, indexLOD,
                   observers, disposed, traversed, ready, nodeAggregates, materialAggregates,
                   aggDone, notified, stack, called, nodeLoad, materialLoad, nodes,
                   matData, meshMat, uriReqs, getIn, getOut>>

\* --------------------------------------- reaction of a node level (154-167)
\* The loader's promise fulfils only once the URI requests the level made
\* through _loadUriAsync were issued to it.
NoDeferred(k, o, l) ==
    \A r \in uriReqs : (r.kind = k /\ r.obj = o /\ r.lod = l) => r.st = "issued"

DisposedMaterialOps(md, mm) ==
    LET RECURSIVE Walk(_)
        Walk(mat) ==
            IF mat \notin GltfMaterials THEN <<>>
            ELSE (IF Unused(md, mm, mat) THEN <<Op("dispose", "material", mat)>> ELSE <<>>)
                 \o Walk(mat + 1)
    IN Walk(0)

\* Variant of NodeReactionOps that enables the level's node before it disposes
\* the previous level's.
NodeShowThenDispose(swap, prev, cur, md, mm) ==
    <<Op("show", "node", cur)>>
    \o (IF swap
        THEN <<Op("dispose", "node", prev)>> \o DisposedMaterialOps(md, mm)
        ELSE <<>>)

\* Order of lines 155-165: dispose the previous level's node, sweep the unused
\* materials, then enable the node of this level.
NodeReactionOps(swap, prev, cur, md, mm) ==
    (IF swap
     THEN <<Op("dispose", "node", prev)>> \o DisposedMaterialOps(md, mm)
     ELSE <<>>)
    \o <<Op("show", "node", cur)>>

NodeLoaded(o, l) ==
    /\ Async
    /\ nodeLoad[o][l] = "loading"
    /\ NoDeferred("node", o, l)
    /\ LET lods == NodeLODs(o).lods
           cur == lods[l + 1]
           swap == l # 0 /\ nodes[lods[l]].tracked
           prev == IF l # 0 THEN lods[l] ELSE cur
           gone == IF swap
                   THEN [nodes EXCEPT ![prev].disposed = TRUE, ![prev].tracked = FALSE]
                   ELSE nodes
       IN
       IF swap /\ disposed
       THEN \* _disposeUnusedMaterials reads this._loader.gltf of a deleted _loader
            /\ nodes' = gone
            /\ nodeLoad' = [nodeLoad EXCEPT ![o][l] = "threw"]
            /\ ops' = <<Op("dispose", "node", prev)>>
            /\ UNCHANGED matData
       ELSE /\ nodes' = [gone EXCEPT ![cur].enabled = TRUE]
            /\ nodeLoad' = [nodeLoad EXCEPT ![o][l] = "loaded"]
            /\ matData' = IF swap THEN DisposeUnusedMaterials(matData, meshMat) ELSE matData
            /\ ops' = NodeReactionOps(swap, prev, cur, matData, meshMat)
    /\ result' = "none"
    /\ UNCHANGED <<maxLODsToLoad, useRangeRequests, nodeIndexLOD, nodeSignalLODs, nodePromiseLODs,
                   materialIndexLOD, materialSignalLODs, materialPromiseLODs, indexLOD,
                   bufferLODs, observers, disposed, traversed, ready, nodeAggregates,
                   materialAggregates, aggDone, notified, stack, called, materialLoad,
                   meshMat, uriReqs, bufReqs, reads, getIn, getOut>>

\* Variant of NodeOnRejected that disposes the previous level's node as the
\* fulfilment reaction does.
NodeDisposedOnRejected(ns, o, l) ==
    IF l # 0
    THEN [ns EXCEPT ![NodeLODs(o).lods[l]].disposed = TRUE,
                    ![NodeLODs(o).lods[l]].tracked = FALSE]
    ELSE ns

\* The transform nodes after the loader's promise of a level rejected: then()
\* is given the fulfilment reaction only (line 154), so nothing is done.
NodeOnRejected(ns, o, l) == ns

\* The loader's promise of a node level rejects: the reaction does not run.
NodeRejected(o, l) ==
    /\ Async
    /\ nodeLoad[o][l] = "loading"
    /\ nodeLoad' = [nodeLoad EXCEPT ![o][l] = "failed"]
    /\ nodes' = NodeOnRejected(nodes, o, l)
    /\ ops' = <<>>
    /\ result' = "none"
    /\ UNCHANGED <<maxLODsToLoad, useRangeRequests, nodeIndexLOD, nodeSignalLODs, nodePromiseLODs,
                   materialIndexLOD, materialSignalLODs, materialPromiseLODs, indexLOD,
                   bufferLODs, observers, disposed, traversed, ready, nodeAggregates,
                   materialAggregates, aggDone, notified, stack, called, materialLoad,
                   matData, meshMat, uriReqs, bufReqs, reads, getIn, getOut>>

\* ----------------------------------- reaction of a material level (217-230)
\* Order of lines 218-226: assign the material of this level to the mesh, then
\* dispose the previous level's material.
MaterialReactionOps(l, swap, prev, cur) ==
    (IF l # 0 THEN <<Op("show", "material", cur)>> ELSE <<>>)
    \o (IF swap THEN <<Op("dispose", "material", prev)>> ELSE <<>>)

MaterialLoaded(m, l) ==
    /\ Async
    /\ materialLoad[m][l] = "loading"
    /\ NoDeferred("material", m, l)
    /\ LET lods == MaterialLODs(m).lods
           cur == lods[l + 1]
           prev == IF l # 0 THEN lods[l] ELSE cur
           swap == l # 0 /\ matData[prev].tracked
       IN /\ meshMat' = IF l # 0 THEN [meshMat EXCEPT ![m] = cur] ELSE meshMat
          /\ matData' = IF swap
                        THEN [matData EXCEPT ![prev].disposed = TRUE,
                                             ![prev].tracked = FALSE]
                        ELSE matData
          /\ ops' = MaterialReactionOps(l, swap, prev, cur)
    /\ materialLoad' = [materialLoad EXCEPT ![m][l] = "loaded"]
    /\ result' = "none"
    /\ UNCHANGED <<maxLODsToLoad, useRangeRequests, nodeIndexLOD, nodeSignalLODs, nodePromiseLODs,
                   materialIndexLOD, materialSignalLODs, materialPromiseLODs, indexLOD,
                   bufferLODs, observers, disposed, traversed, ready, nodeAggregates,
                   materialAggregates, aggDone, notified, stack, called, nodeLoad,
                   nodes, uriReqs, bufReqs, reads, getIn, getOut>>

MaterialRejected(m, l) ==
    /\ Async
    /\ materialLoad[m][l] = "loading"
    /\ materialLoad' = [materialLoad EXCEPT ![m][l] = "failed"]
    /\ ops' = <<>>
    /\ result' = "none"
    /\ UNCHANGED <<maxLODsToLoad, useRangeRequests, nodeIndexLOD, nodeSignalLODs, nodePromiseLODs,
                   materialIndexLOD, materialSignalLODs, materialPromiseLODs, indexLOD,
                   bufferLODs, observers, disposed, traversed, ready, nodeAggregates,
                   materialAggregates, aggDone, notified, stack, called, nodeLoad,
                   nodes, matData, meshMat, uriReqs, bufReqs, reads, getIn, getOut>>

\* ------------------------------------------------------------ onReady (89-133)
\* Lines 130-132: _loadBufferLOD for the levels 1 .. length - 1 in order; the
\* loop ends at the first hole of the sparse array with a TypeError.
RECURSIVE ReadLevelsFrom(_, _)
ReadLevelsFrom(l, rds) ==
    IF l >= BufferLODsLength THEN [reads |-> rds, error |-> FALSE]
    ELSE IF ~bufferLODs[l].inArray THEN [reads |-> rds, error |-> TRUE]
    ELSE ReadLevelsFrom(l + 1, LoadBufferLOD(rds, l))

OnReady ==
    /\ Async /\ ~ready /\ ~disposed
    /\ ready' = TRUE
    /\ nodeAggregates' = nodePromiseLODs
    /\ materialAggregates' = materialPromiseLODs
    /\ LET got == ReadLevelsFrom(1, reads) IN
       /\ reads' = got.reads
       /\ result' = IF got.error THEN "TypeError" ELSE "void"
    /\ ops' = <<>>
    /\ UNCHANGED <<maxLODsToLoad, useRangeRequests, nodeIndexLOD, nodeSignalLODs, nodePromiseLODs,
                   materialIndexLOD, materialSignalLODs, materialPromiseLODs, indexLOD,
                   bufferLODs, observers, disposed, traversed, aggDone, notified, stack, called,
                   nodeLoad, materialLoad, nodes, matData, meshMat, uriReqs, bufReqs,
                   getIn, getOut>>

\* Variant of ResolveSignal that leaves every signal pending.
LeaveSignal(sig, promiseLODs, l) == sig

\* Lines 99-104 / 119-124: the level's signal is resolved unless the level is
\* the last of the promise array or the array holds no signal for it.
ResolveSignal(sig, promiseLODs, l) ==
    IF l # Len(promiseLODs) - 1 /\ sig[l] # "none"
    THEN [sig EXCEPT ![l] = "resolved"]
    ELSE sig

\* The requests deferred behind a signal are issued to the loader's
\* loadUriAsync when it resolves (lines 261-263 / 269-271).
IssueDeferred(reqs, k, l, sig) ==
    {IF r.kind = k /\ r.lod = l + 1 /\ sig[l] = "resolved"
     THEN [r EXCEPT !.st = "issued"] ELSE r : r \in reqs}

\* Variant of AllFulfilled that is a race: the first promise to fulfil wins.
AnyFulfilled(aggregates, load, l) ==
    \E o \in aggregates[l + 1] : load[o][l] = "loaded"

\* Promise.all(promiseLODs[indexLOD]) fulfils when every promise of the level did.
AllFulfilled(aggregates, load, l) ==
    \A o \in aggregates[l + 1] : load[o][l] = "loaded"

Notify(n, k, l) ==
    IF observers THEN [n EXCEPT ![<<k, l>>] = @ + 1] ELSE n

\* Variant of LODsLoadedOutcome that pays no attention to dispose(): it
\* notifies and resolves the signal that was pending for the level.
OutcomeIgnoringDispose(k, l, sig, promiseLODs) ==
    LET resolved == [sig EXCEPT ![l] = "resolved"] IN
    [notified |-> [notified EXCEPT ![<<k, l>>] = @ + 1],
     sig |-> resolved,
     reqs |-> IssueDeferred(uriReqs, k, l, resolved)]

\* Body of an aggregate's reaction (lines 92-104 / 112-124).  After dispose()
\* this._loader was deleted and the reaction throws at its first use of it,
\* before it notifies.
LODsLoadedOutcome(k, l, sig, promiseLODs) ==
    IF disposed
    THEN [notified |-> notified, sig |-> sig, reqs |-> uriReqs]
    ELSE LET resolved == ResolveSignal(sig, promiseLODs, l) IN
         [notified |-> Notify(notified, k, l),
          sig |-> resolved,
          reqs |-> IssueDeferred(uriReqs, k, l, resolved)]

\* Reaction of Promise.all(this._nodePromiseLODs[indexLOD]) (lines 91-105).
NodeLODsLoaded(l) ==
    /\ Async /\ ready
    /\ l < Len(nodeAggregates)
    /\ <<"node", l>> \notin aggDone
    /\ AllFulfilled(nodeAggregates, nodeLoad, l)
    /\ aggDone' = aggDone \cup {<<"node", l>>}
    /\ LET out == LODsLoadedOutcome("node", l, nodeSignalLODs, nodePromiseLODs) IN
       /\ notified' = out.notified
       /\ nodeSignalLODs' = out.sig
       /\ uriReqs' = out.reqs
    /\ ops' = <<>>
    /\ result' = "none"
    /\ UNCHANGED <<maxLODsToLoad, useRangeRequests, nodeIndexLOD, nodePromiseLODs, materialIndexLOD,
                   materialSignalLODs, materialPromiseLODs, indexLOD, bufferLODs,
                   observers, disposed, traversed, ready, nodeAggregates, materialAggregates,
                   stack, called, nodeLoad, materialLoad, nodes, matData, meshMat,
                   bufReqs, reads, getIn, getOut>>

\* Reaction of Promise.all(this._materialPromiseLODs[indexLOD]) (lines 111-125).
MaterialLODsLoaded(l) ==
    /\ Async /\ ready
    /\ l < Len(materialAggregates)
    /\ <<"material", l>> \notin aggDone
    /\ AllFulfilled(materialAggregates, materialLoad, l)
    /\ aggDone' = aggDone \cup {<<"material", l>>}
    /\ LET out == LODsLoadedOutcome("material", l, materialSignalLODs,
                                    materialPromiseLODs) IN
       /\ notified' = out.notified
       /\ materialSignalLODs' = out.sig
       /\ uriReqs' = out.reqs
    /\ ops' = <<>>
    /\ result' = "none"
    /\ UNCHANGED <<maxLODsToLoad, useRangeRequests, nodeIndexLOD, nodeSignalLODs, nodePromiseLODs,
                   materialIndexLOD, materialPromiseLODs, indexLOD, bufferLODs,
                   observers, disposed, traversed, ready, nodeAggregates, materialAggregates,
                   stack, called, nodeLoad, materialLoad, nodes, matData, meshMat,
                   bufReqs, reads, getIn, getOut>>

\* ------------------------------------------------------------ dispose (68-86)
Dispose ==
    /\ Async /\ ~disposed
    /\ matData' = DisposeUnusedMaterials(matData, meshMat)
    /\ disposed' = TRUE
    /\ nodeIndexLOD' = Null
    /\ nodeSignalLODs' = [l \in LevelIdx |-> "none"]
    /\ nodePromiseLODs' = <<>>
    /\ materialIndexLOD' = Null
    /\ materialSignalLODs' = [l \in LevelIdx |-> "none"]
    /\ materialPromiseLODs' = <<>>
    /\ indexLOD' = Null
    /\ bufferLODs' = [l \in LevelIdx |-> [bufferLODs[l] EXCEPT !.inArray = FALSE]]
    /\ observers' = FALSE
    /\ ops' = DisposedMaterialOps(matData, meshMat)
    /\ result' = "void"
    /\ UNCHANGED <<maxLODsToLoad, useRangeRequests, traversed, ready, nodeAggregates, materialAggregates, aggDone,
                   notified, stack, called, nodeLoad, materialLoad, nodes, meshMat,
                   uriReqs, bufReqs, reads, getIn, getOut>>

\* The loader's traversal of the asset ends: every load request was issued.
EndTraversal ==
    /\ Idle /\ ~traversed
    /\ traversed' = TRUE
    /\ ops' = <<>>
    /\ result' = "none"
    /\ UNCHANGED <<maxLODsToLoad, useRangeRequests, nodeIndexLOD, nodeSignalLODs, nodePromiseLODs,
                   materialIndexLOD, materialSignalLODs, materialPromiseLODs, indexLOD,
                   bufferLODs, observers, disposed, ready, nodeAggregates,
                   materialAggregates, aggDone, notified, stack, called, nodeLoad,
                   materialLoad, nodes, matData, meshMat, uriReqs, bufReqs, reads,
                   getIn, getOut>>

\* ------------------------------------------------------------- specification
Offsets == 0..MaxOffset
Lengths == 1..MaxByteLength

Failures ==
    Cardinality({x \in NodeObjs \X LevelIdx : nodeLoad[x[1]][x[2]] = "failed"})
    + Cardinality({x \in Meshes \X LevelIdx : materialLoad[x[1]][x[2]] = "failed"})
    + Cardinality({i \in 1..Len(reads) : reads[i].st = "failed"})
MayFail == Failures < MaxFailures
MayLoad == Cardinality(called) < MaxObjects
MayDeferUri == Cardinality(uriReqs) < MaxUriReqs
MayRecordRange == Cardinality(bufReqs) < MaxBufReqs

Next ==
    \/ \E o \in NodeObjs : MayLoad /\ LoadNodeAsync(o)
    \/ NodeLoaderReturn
    \/ \E m \in Meshes : MayLoad /\ LoadMaterialAsync(m)
    \/ MaterialLoaderReturn
    \/ MayDeferUri /\ LoadUriAsync
    \/ \E byteOffset \in Offsets, byteLength \in Lengths, uri, bin \in BOOLEAN :
           MayRecordRange /\ LoadBufferAsync(byteOffset, byteLength, uri, bin)
    \/ \E o \in NodeObjs, l \in LevelIdx : NodeLoaded(o, l)
    \/ \E o \in NodeObjs, l \in LevelIdx : MayFail /\ NodeRejected(o, l)
    \/ \E m \in Meshes, l \in LevelIdx : MaterialLoaded(m, l)
    \/ \E m \in Meshes, l \in LevelIdx : MayFail /\ MaterialRejected(m, l)
    \/ EndTraversal
    \/ OnReady
    \/ \E l \in LevelIdx : NodeLODsLoaded(l)
    \/ \E l \in LevelIdx : MaterialLODsLoaded(l)
    \/ Dispose

Spec == Init /\ [][Next]_vars

\* The loader with range requests on.  The promises of the loader's own loads
\* stay pending here: what is followed is the bucketing of the byte ranges and
\* the reads of the buckets.
InitRange ==
    /\ maxLODsToLoad = DefaultMaxLODs
    /\ useRangeRequests = TRUE
    /\ InitExtension
    /\ getIn = [property |-> 0, ids |-> <<>>, max |-> 0]
    /\ getOut = NotCalled

NextRange ==
    \/ \E o \in NodeObjs : MayLoad /\ LoadNodeAsync(o)
    \/ NodeLoaderReturn
    \/ \E m \in Meshes : MayLoad /\ LoadMaterialAsync(m)
    \/ MaterialLoaderReturn
    \/ \E byteOffset \in Offsets, byteLength \in Lengths, uri, bin \in BOOLEAN :
           MayRecordRange /\ LoadBufferAsync(byteOffset, byteLength, uri, bin)
    \/ EndTraversal
    \/ OnReady
    \/ \E i \in 1..Len(reads) : ReadSettle(i, TRUE)
    \/ \E i \in 1..Len(reads) : MayFail /\ ReadSettle(i, FALSE)

SpecRange == InitRange /\ [][NextRange]_vars

\* Range requests together with the completion of the loader's own loads.
NextRangeLoads ==
    \/ NextRange
    \/ \E o \in NodeObjs, l \in LevelIdx : NodeLoaded(o, l)
    \/ \E m \in Meshes, l \in LevelIdx : MaterialLoaded(m, l)

SpecRangeLoads == InitRange /\ [][NextRangeLoads]_vars

\* Every read that bin.readAsync was asked for completes, and the loader calls
\* onReady once its traversal is over.
ReadCompletes == \E i \in 1..Len(reads) : ReadSettle(i, TRUE)

FairSpecRange ==
    SpecRange /\ WF_vars(ReadCompletes) /\ WF_vars(OnReady) /\ WF_vars(EndTraversal)

NextLODs == CallGetLODs /\ UNCHANGED extVars

InitLODs ==
    /\ maxLODsToLoad = DefaultMaxLODs
    /\ useRangeRequests = FALSE
    /\ InitExtension
    /\ getIn \in GetInputs
    /\ getOut = NotCalled

SpecLODs == InitLODs /\ [][NextLODs]_vars

\* The reactions of the aggregate promises are jobs of the promise queue: once
\* their promise is fulfilled they run.
LODsLoadedReaction ==
    \/ \E l \in LevelIdx : NodeLODsLoaded(l)
    \/ \E l \in LevelIdx : MaterialLODsLoaded(l)

FairSpec == Spec /\ WF_vars(LODsLoadedReaction)

\* ------------------------------------------------------------------- claims
Before(first(_), then(_)) ==
    \A i, j \in 1..Len(ops) : (first(ops[i]) /\ then(ops[j])) => i < j
IsOp(x, o, k) == x.op = o /\ x.kind = k
NodeDispose(x) == IsOp(x, "dispose", "node")
NodeShow(x) == IsOp(x, "show", "node")
MaterialDispose(x) == IsOp(x, "dispose", "material")
MaterialShow(x) == IsOp(x, "show", "material")

Loaded(o) == <<"node", o>> \in called /\ NodeLODs(o).error = "none"
LoadedMesh(m) ==
    /\ <<"material", m>> \in called
    /\ MaterialLODs(m).error = "none"
    /\ materialLoad[m][0] # "none"
\* Levels i >= 1 of a loaded node object, as indices into its level list.
UpperLevels(o) == 1..(Len(NodeLODs(o).lods) - 1)
NodeAt(o, l) == NodeLODs(o).lods[l + 1]
MaterialAt(m, l) == MaterialLODs(m).lods[l + 1]
Completed(st) == st \in {"loaded", "threw"}

\* C1 (as stated): within one reaction every disposal of the previous level's
\* renderable precedes the showing of the level's own renderable, for nodes
\* (setEnabled(true)) and for materials (assign) alike, and a previous level's
\* node is disposed only once the level's own load has completed.
C1_DisposeThenShowBothKinds ==
    /\ Before(NodeDispose, NodeShow)
    /\ Before(MaterialDispose, MaterialShow)
    /\ \A o \in NodeObjs : Loaded(o) =>
          \A i \in UpperLevels(o) :
              nodes[NodeAt(o, i - 1)].disposed => Completed(nodeLoad[o][i])

\* C1 (amended): for nodes the previous level's node is disposed only once the
\* level's own load has completed and before the level's node is enabled; for
\* materials the reaction, which runs only once the level's load has completed,
\* assigns the level's material to the mesh first and disposes the previous
\* level's material after that.
C1_NodeDisposeThenShow_MaterialAssignThenDispose ==
    /\ Before(NodeDispose, NodeShow)
    /\ Before(MaterialShow, MaterialDispose)
    /\ \A o \in NodeObjs : Loaded(o) =>
          \A i \in UpperLevels(o) :
              nodes[NodeAt(o, i - 1)].disposed => Completed(nodeLoad[o][i])
    /\ \A m \in Meshes : LoadedMesh(m) =>
          \A i \in 1..(Len(MaterialLODs(m).lods) - 1) :
              meshMat[m] = MaterialAt(m, i) => materialLoad[m][i] = "loaded"

\* A node reaction that disposed the previous level's node and enabled its own.
C1_Witness ==
    \E i, j \in 1..Len(ops) : NodeDispose(ops[i]) /\ NodeShow(ops[j])

\* C2 (as stated): no reaction of a level >= 1 disposes a previous level's
\* node before the node of level 0 was enabled.
C2_LevelZeroShownBeforeAnyDispose ==
    \A o \in NodeObjs : Loaded(o) =>
        \A i \in UpperLevels(o) :
            nodes[NodeAt(o, i - 1)].disposed => nodes[NodeAt(o, 0)].enabled

\* Objects of a kind whose level-l load was requested, and the state it is in.
Kinds == {"node", "material"}
Objs(k) == IF k = "node" THEN NodeObjs ELSE Meshes
LoadOf(k) == IF k = "node" THEN nodeLoad ELSE materialLoad
SignalOf(k) == IF k = "node" THEN nodeSignalLODs ELSE materialSignalLODs
PromisesOf(k) == IF k = "node" THEN nodePromiseLODs ELSE materialPromiseLODs
Tracked(k, l) == {o \in Objs(k) : LoadOf(k)[o][l] # "none"}
AllLoaded(k, l) == \A o \in Tracked(k, l) : LoadOf(k)[o][l] = "loaded"
AllSettled(k, l) == \A o \in Tracked(k, l) : LoadOf(k)[o][l] # "loading"
Behind(k, l) == {r \in uriReqs : r.kind = k /\ r.lod = l + 1}

\* C3: a request deferred by _loadUriAsync at level i > 0 is issued to the
\* loader only after the reaction of level i-1's aggregate ran, which is what
\* resolves level i-1's signal of the kind; a signal is resolved only when every
\* tracked object's load of its level completed; _loadUriAsync defers only
\* while a level > 0 is active, and a material signal exists only for a request
\* that was deferred behind it.
C3_DeferredUntilPreviousLevelResolved ==
    /\ \A r \in uriReqs :
          /\ r.lod >= 1
          /\ r.st = "issued" =>
                /\ <<r.kind, r.lod - 1>> \in aggDone
                /\ Tracked(r.kind, r.lod - 1) # {}
                /\ AllLoaded(r.kind, r.lod - 1)
    /\ \A k \in Kinds, l \in LevelIdx :
          SignalOf(k)[l] = "resolved" =>
              <<k, l>> \in aggDone /\ Tracked(k, l) # {} /\ AllLoaded(k, l)
    /\ result = "deferred" => (nodeIndexLOD # Null \/ materialIndexLOD # Null)
    /\ \A l \in LevelIdx :
          materialSignalLODs[l] # "none" => Behind("material", l) # {}

\* A deferred request was issued after its previous level's signal resolved.
C3_Witness ==
    \E r \in uriReqs : r.st = "issued" /\ SignalOf(r.kind)[r.lod - 1] = "resolved"

\* C4: the event of a kind and level is notified at most once, and only when
\* the level's load of every tracked object of the kind has settled.
C4_NotifiedOnceAfterAllSettled ==
    \A k \in Kinds, l \in LevelIdx :
        /\ notified[<<k, l>>] <= 1
        /\ notified[<<k, l>>] >= 1 => (Tracked(k, l) # {} /\ AllSettled(k, l))

\* The event of node level 1 was notified with two node objects tracked there.
C4_Witness ==
    /\ notified[<<"node", 1>>] = 1
    /\ Cardinality(Tracked("node", 1)) = 2

\* What the reaction of a level's aggregate leaves behind: the event notified,
\* the level's signal resolved and the requests deferred behind it issued.
Advanced(k, l) ==
    /\ notified[<<k, l>>] >= 1
    /\ SignalOf(k)[l] # "none" =>
          SignalOf(k)[l] = "resolved" /\ \A r \in Behind(k, l) : r.st = "issued"

\* The same, the signal being left as it is at the last level of the kind's
\* promise array, behind which no level waits.
AdvancedUnlessLast(k, l) ==
    /\ notified[<<k, l>>] >= 1
    /\ (SignalOf(k)[l] # "none" /\ l # Len(PromisesOf(k)) - 1) =>
          SignalOf(k)[l] = "resolved" /\ \A r \in Behind(k, l) : r.st = "issued"

\* C5 (as stated): after onReady and without dispose, once all tracked
\* objects' level-i loads of a kind have settled, succeeded or failed, the
\* level's event is eventually notified and its signal, if it exists, resolved,
\* the requests deferred behind it being issued.
C5_SettledLeadsToAdvance ==
    \A k \in Kinds, l \in LevelIdx :
        (ready /\ ~disposed /\ Tracked(k, l) # {} /\ AllSettled(k, l))
            ~> (disposed \/ Advanced(k, l))

\* C5 (amended): after onReady and without dispose, once all tracked objects'
\* level-i loads of a kind have succeeded, the level's event is eventually
\* notified and, unless level i is the last tracked level of the kind, its
\* signal, if it exists, is resolved and the requests deferred behind it issued.
C5_LoadedLeadsToAdvance ==
    \A k \in Kinds, l \in LevelIdx :
        (ready /\ ~disposed /\ Tracked(k, l) # {} /\ AllLoaded(k, l))
            ~> (disposed \/ AdvancedUnlessLast(k, l))

\* Level 0's event was notified, its signal resolved and a request issued.
C5_Witness ==
    /\ ~disposed
    /\ \E k \in Kinds :
          /\ AdvancedUnlessLast(k, 0)
          /\ SignalOf(k)[0] = "resolved"
          /\ \E r \in Behind(k, 0) : r.st = "issued"

\* C6 (as stated): for a cap >= 1 the last entry of the list _getLODs returns
\* is the original property, whether or not the cap truncated the list.
C6_LastIsOriginal ==
    getOut.error = "none" => getOut.lods[Len(getOut.lods)] = getIn.property

\* C6 (amended): the last entry is the original property when the cap exceeds
\* the number N of declared ids; with a cap C <= N the list ends with the C-th
\* declared id counted from the last, and the original is not appended.
C6_LastIsOriginalUnlessTruncated ==
    getOut.error = "none" =>
        LET N == Len(getIn.ids)
            last == getOut.lods[Len(getOut.lods)]
        IN IF getIn.max > N
           THEN last = getIn.property
           ELSE last = getIn.ids[N - getIn.max + 1] /\ Len(getOut.lods) = getIn.max

\* _getLODs returned a list the cap truncated, ending in another property.
C6_Witness ==
    /\ getOut.error = "none"
    /\ getIn.max <= Len(getIn.ids)
    /\ getOut.lods[Len(getOut.lods)] # getIn.property

\* C7: for a cap C >= 1 and N declared ids _getLODs returns min(N+1, C)
\* entries, those taken from the declared ids in reverse declaration order.
C7_LengthAndReverseOrder ==
    getOut.error = "none" =>
        LET N == Len(getIn.ids) IN
        /\ Len(getOut.lods) = Min(N + 1, getIn.max)
        /\ \A k \in 1..Min(N, getIn.max) : getOut.lods[k] = getIn.ids[N - k + 1]

\* _getLODs returned three entries, the first two from distinct declared ids.
C7_Witness ==
    /\ getOut.error = "none"
    /\ Len(getOut.lods) = 3
    /\ getOut.lods[1] # getOut.lods[2]

\* C8 (as stated): bin.readAsync is called at most once for each level.
C8_OneReadPerLevel ==
    \A i, j \in 1..Len(reads) : reads[i].lod = reads[j].lod => i = j

\* C9 (as stated): once the read of a level's bucket was issued the bucket's
\* start and end stay what they were when it was read.
C9_BucketFixedAfterRead ==
    \A i \in 1..Len(reads) :
        LET b == bufferLODs[reads[i].lod] IN
        b.start = reads[i].start /\ b.end = reads[i].start + reads[i].length - 1

\* C10 (as stated): a future of loadBufferAsync(byteOffset, byteLength) that
\* fulfils yields the payload bytes byteOffset .. byteOffset + byteLength - 1.
C10_ViewIsRequestedBytes ==
    \A q \in bufReqs :
        q.st = "fulfilled" =>
            q.from = q.byteOffset /\ q.to = q.byteOffset + q.byteLength - 1

\* The loadBufferAsync calls recorded for a level.
Recorded(l) == {q \in bufReqs : q.lod = l}

\* C11: a level's bucket starts at the least byteOffset and ends at the
\* greatest byteOffset + byteLength - 1 of the loadBufferAsync calls recorded
\* for the level, and a level with no recorded call has no bucket.
C11_BucketIsMinMaxOfItsCalls ==
    \A l \in LevelIdx :
        IF Recorded(l) = {}
        THEN ~bufferLODs[l].inArray
        ELSE /\ bufferLODs[l].inArray
             /\ \E q \in Recorded(l) : bufferLODs[l].start = q.byteOffset
             /\ \A q \in Recorded(l) : bufferLODs[l].start <= q.byteOffset
             /\ \E q \in Recorded(l) : bufferLODs[l].end = q.byteOffset + q.byteLength - 1
             /\ \A q \in Recorded(l) : bufferLODs[l].end >= q.byteOffset + q.byteLength - 1

\* Two calls were recorded for a level and its bucket is wider than either.
C11_Witness ==
    \E l \in LevelIdx :
        /\ Cardinality(Recorded(l)) = 2
        /\ \A q \in Recorded(l) :
              bufferLODs[l].start < q.byteOffset
              \/ bufferLODs[l].end > q.byteOffset + q.byteLength - 1

\* The swap of a level is done: every object tracked at the level ran its
\* reaction, which shows the level's renderable.
Swapped(l) ==
    /\ \E k \in Kinds : Tracked(k, l) # {}
    /\ \A k \in Kinds : AllLoaded(k, l)

\* C12 (as stated): the read of a level i >= 1 bucket is issued only after
\* level i-1 was loaded and shown.
C12_ReadAfterPreviousLevelShown ==
    \A i \in 1..Len(reads) : reads[i].lod >= 1 => Swapped(reads[i].lod - 1)

\* C13 (as stated): a call of _loadMaterialAsync made while a node level is the
\* active level, level 0 included, returns null, registers no material level
\* promise, creates no material signal and changes no marker.
C13_NoMaterialLODsInsideNodeLevel ==
    [][\A m \in Meshes :
          (LoadMaterialAsync(m) /\ indexLOD # Null)
              => /\ result' = "null"
                 /\ UNCHANGED <<materialPromiseLODs, materialSignalLODs,
                                materialIndexLOD, indexLOD, materialLoad, stack>>]_vars

\* C14 (as stated): no mesh has as its material one that was disposed by a
\* material reaction or by _disposeUnusedMaterials.
C14_NoMeshHoldsDisposedMaterial ==
    \A m \in Meshes : meshMat[m] # NoMat => ~matData[meshMat[m]].disposed

\* C15: once dispose() ran, no level event is notified, no signal is resolved
\* and no deferred request is issued, whatever completes afterwards.
C15_NothingAdvancesAfterDispose ==
    [][disposed =>
          /\ notified' = notified
          /\ nodeSignalLODs' = nodeSignalLODs
          /\ materialSignalLODs' = materialSignalLODs
          /\ uriReqs' = uriReqs]_vars

\* After dispose() the reaction of an aggregate ran without notifying, and a
\* request deferred behind its level is still waiting.
C15_Witness ==
    /\ disposed
    /\ \E r \in uriReqs :
          /\ r.st = "deferred"
          /\ <<r.kind, r.lod - 1>> \in aggDone
          /\ notified[<<r.kind, r.lod - 1>>] = 0

VisibleNode(ns, n) == ns[n].enabled /\ ~ns[n].disposed
VisibleMaterial(md, mm, mat) ==
    ~md[mat].disposed /\ \E m \in Meshes : mm[m] = mat

\* C16 (as stated): a node or material that is visible when dispose() is
\* called, or at any time after, stays visible and undisposed in every later
\* step, dispose() itself included.
C16_VisibleStaysAfterDispose ==
    [][(disposed \/ disposed') =>
          /\ \A n \in GltfNodes :
                VisibleNode(nodes, n) => VisibleNode(nodes', n)
          /\ \A mat \in GltfMaterials :
                VisibleMaterial(matData, meshMat, mat) => ~matData'[mat].disposed]_vars

\* C17: the failure of a level i >= 1 load changes no node, material or mesh,
\* and the node or material of level i-1 of an object whose level i failed is
\* not disposed: the level's reaction does not run on failure.
C17_FailureLeavesShallowerLevel ==
    /\ [](/\ \A o \in NodeObjs : Loaded(o) =>
               \A i \in UpperLevels(o) :
                   nodeLoad[o][i] = "failed" => ~nodes[NodeAt(o, i - 1)].disposed
          /\ \A m \in Meshes : LoadedMesh(m) =>
               \A i \in 1..(Len(MaterialLODs(m).lods) - 1) :
                   materialLoad[m][i] = "failed"
                       => ~matData[MaterialAt(m, i - 1)].disposed)
    /\ [][(\/ \E o \in NodeObjs, i \in LevelIdx :
                 nodeLoad[o][i] # "failed" /\ nodeLoad'[o][i] = "failed"
           \/ \E m \in Meshes, i \in LevelIdx :
                 materialLoad[m][i] # "failed" /\ materialLoad'[m][i] = "failed")
              => UNCHANGED <<nodes, matData, meshMat>>]_vars

\* The level-1 load of a node object failed while its level-0 node is shown.
C17_Witness ==
    \E o \in NodeObjs :
        /\ Loaded(o) /\ Len(NodeLODs(o).lods) >= 2
        /\ nodeLoad[o][1] = "failed"
        /\ VisibleNode(nodes, NodeAt(o, 0))

\* C18: with maxLODsToLoad <= 0 a call of loadNodeAsync or _loadMaterialAsync
\* for an object declaring the extension raises the configuration error and
\* changes nothing: no level load, promise, signal, marker, bucket or read.
C18_NonPositiveCapRaisesBeforeAnyLoad ==
    [][(/\ maxLODsToLoad <= 0
        /\ \/ \E o \in NodeObjs : LoadNodeAsync(o)
           \/ \E m \in Meshes : LoadMaterialAsync(m))
          => /\ result' = "maxLODsToLoad"
             /\ UNCHANGED <<nodePromiseLODs, materialPromiseLODs, nodeSignalLODs,
                            materialSignalLODs, nodeIndexLOD, materialIndexLOD,
                            indexLOD, bufferLODs, reads, nodeLoad, materialLoad,
                            nodes, matData, meshMat, stack, uriReqs>>]_vars

\* Both a node and a material were asked for under a cap of zero, the last
\* call raised, and no level load exists.
C18_Witness ==
    /\ maxLODsToLoad <= 0
    /\ result = "maxLODsToLoad"
    /\ \E o \in NodeObjs, m \in Meshes : called = {<<"node", o>>, <<"material", m>>}
    /\ nodePromiseLODs = <<>> /\ materialPromiseLODs = <<>>

\* C19 (as stated): once onReady has run, every future loadBufferAsync
\* returned eventually settles, every bucket with a recorded call having had
\* its read issued.
C19_BufferFuturesSettle ==
    ready ~> (/\ \A q \in bufReqs : q.st # "pending"
              /\ \A l \in LevelIdx :
                    Recorded(l) # {} => \E i \in 1..Len(reads) : reads[i].lod = l)

\* C20 (as stated): _loadBufferLOD is never invoked for a level that has no
\* bucket, so no call of loadNodeAsync, _loadMaterialAsync or onReady ends in
\* the TypeError of reading the start of an undefined bucket.
C20_ReadOnlyExistingBucket ==
    result # "TypeError"

====
